---- MODULE Spec2Model ----
(***************************************************************************)
(* A model of the EXR -> GIMP conversion plug-in: the channel/layer store  *)
(* (exr::Channel, exr::Layer, exr::File), the layer classifier             *)
(* (determine_layer_type), the numeric kernels (convert_to_ldr,            *)
(* chroma_to_ldr) and the orchestrator (Converter::convert) talking to the *)
(* GIMP image sink (gimp_image_new, gimp_layer_new, ...).                  *)
(*                                                                         *)
(* Strings are sequences of one-character strings, so that std::sort on    *)
(* the characters of a std::string is computed, not assumed.  Raw channel  *)
(* buffers are sequences of 16-bit units (little-endian), so that reading  *)
(* a buffer as float, half or unsigned int is computed from the bits.      *)
(***************************************************************************)
EXTENDS Integers, Sequences, FiniteSets, TLC

VARIABLES
  exr,          \* what the OpenEXR decoder delivers for the file on disk
  m_loaded,     \* File::m_loaded
  m_width,      \* File::m_width
  m_height,     \* File::m_height
  m_index,      \* File::m_index   (layer name -> position in m_layers)
  m_layers,     \* File::m_layers  (each a Layer: m_name, m_index, m_channels)
  load_state,   \* "fresh" before File::load, then "ok" or "failed"
  m_channels,   \* File::m_channels of exr_file.cpp: the Channel objects load
                \* created, each named by its position in the decoder's list
  deleted,      \* how often each object of the File went through `delete`
  error_msg,    \* the caller's std::string error_msg
  pc,           \* position of Converter::convert: idle, loop, done, crashed
  grayscale,    \* local of convert
  i,            \* loop index of convert's second loop
  image_id,     \* convert's out parameter
  ret,          \* what convert returned: "none", "true" or "false"
  gimp,         \* the sink: the image, its attached layers, the call log
  heap,         \* output buffers of the conversion: "live" or "freed"
  layer,        \* a stand-alone exr::Layer being built (layer API)
  layer_type    \* result of determine_layer_type on `layer`, or "none"

vars == << exr, m_loaded, m_width, m_height, m_index, m_layers, load_state,
           m_channels, deleted, error_msg, pc, grayscale, i, image_id, ret, gimp, heap,
           layer, layer_type >>

fileVars == << exr, m_loaded, m_width, m_height, m_index, m_layers, load_state,
              m_channels, deleted >>
convVars == << error_msg, pc, grayscale, i, image_id, ret, gimp, heap >>
layerVars == << layer, layer_type >>

-----------------------------------------------------------------------------
(* Strings *)

\* A std::string of one or more characters, written as a sequence of characters.
Str1(a) == << a >>
Str2(a, b) == << a, b >>
Str3(a, b, c) == << a, b, c >>

\* The characters that occur in the model, with their char values (ASCII), the
\* order std::sort and std::map<std::string, ...> use.
Chars == { ".", "A", "B", "G", "L", "R", "Y", "Z" }

Ord(c) ==
  CASE c = "." -> 46
    [] c = "A" -> 65
    [] c = "B" -> 66
    [] c = "G" -> 71
    [] c = "L" -> 76
    [] c = "R" -> 82
    [] c = "Y" -> 89
    [] c = "Z" -> 90

RECURSIVE InsertSorted(_, _)
InsertSorted(c, s) ==
  IF s = << >> THEN << c >>
  ELSE IF Ord(c) <= Ord(Head(s)) THEN << c >> \o s
  ELSE << Head(s) >> \o InsertSorted(c, Tail(s))

\* std::sort(names.begin(), names.end()) on the characters of a string
RECURSIVE SortChars(_)
SortChars(s) ==
  IF s = << >> THEN << >> ELSE InsertSorted(Head(s), SortChars(Tail(s)))

-----------------------------------------------------------------------------
(* exr::Layer *)

\* The null pointer
NULL == [ null |-> TRUE ]

\* Channel::Channel: name, sample type and the raw buffer (filled by the decoder)
NewChannel(name, type, buffer) ==
  [ m_name |-> name, m_layer |-> NULL, m_pixel_data_type |-> type, m_buffer |-> buffer ]

\* Layer::Layer(name)
NewLayer(name) == [ m_name |-> name, m_index |-> << >>, m_channels |-> << >> ]

\* std::map::insert(std::make_pair(key, value)): an existing key keeps its value.
\* The map is a function from its keys; indices are the C++ (zero-based) ones.
MapInsert(map, key, value) ==
  IF key \in DOMAIN map THEN map
  ELSE [ k \in (DOMAIN map) \cup { key } |-> IF k = key THEN value ELSE map[k] ]

\* Layer::insert_channel
insert_channel(l, channel) ==
  [ l EXCEPT !.m_index = MapInsert(l.m_index, channel.m_name, Len(l.m_channels)),
             !.m_channels = Append(l.m_channels, [ channel EXCEPT !.m_layer = l.m_name ]) ]

\* Layer::get_channel_count
get_channel_count(l) == Len(l.m_channels)

\* Layer::get_channel_at (zero-based index)
get_channel_at(l, index) ==
  IF index < Len(l.m_channels) THEN l.m_channels[index + 1] ELSE NULL

\* Layer::get_channel
get_channel(l, name) ==
  IF name \in DOMAIN l.m_index THEN l.m_channels[l.m_index[name] + 1] ELSE NULL

\* Layer::find_channel: the return value.  The `channel` parameter is a
\* pointer passed by value, so the assignment to it never reaches the caller.
find_channel(l, name) == name \in DOMAIN l.m_index

-----------------------------------------------------------------------------
(* Layer classification *)

\* names += layer.get_channel_at(i)->get_name(), for i = 0 .. count-1
RECURSIVE ConcatNames(_, _)
ConcatNames(l, k) ==
  IF k >= get_channel_count(l) THEN << >>
  ELSE get_channel_at(l, k).m_name \o ConcatNames(l, k + 1)

\* The mutant: the sort is left out.
determine_layer_type_nosort(l) ==
  IF get_channel_count(l) > 4 THEN "UNDEFINED"
  ELSE LET names == ConcatNames(l, 0) IN
    CASE names = << "Y" >> -> "Y"
      [] names = << "B", "R", "Y", "Y", "Y" >> -> "YC"
      [] names = << "A", "Y" >> -> "YA"
      [] names = << "A", "B", "R", "Y", "Y", "Y" >> -> "YCA"
      [] names = << "A", "B", "G", "R" >> -> "RGBA"
      [] names = << "B", "G", "R" >> -> "RGB"
      [] OTHER -> "UNDEFINED"

determine_layer_type(l) ==
  IF get_channel_count(l) > 4 THEN "UNDEFINED"
  ELSE LET names == SortChars(ConcatNames(l, 0)) IN
    CASE names = << "Y" >> -> "Y"
      [] names = << "B", "R", "Y", "Y", "Y" >> -> "YC"
      [] names = << "A", "Y" >> -> "YA"
      [] names = << "A", "B", "R", "Y", "Y", "Y" >> -> "YCA"
      [] names = << "A", "B", "G", "R" >> -> "RGBA"
      [] names = << "B", "G", "R" >> -> "RGB"
      [] OTHER -> "UNDEFINED"

-----------------------------------------------------------------------------
(* Raw samples.  A buffer is a sequence of 16-bit units; a 32-bit sample is  *)
(* two units, low unit first.                                               *)

FLOAT == "PIXEL_DATA_TYPE_FLOAT"
HALF == "PIXEL_DATA_TYPE_HALF"
UINT == "PIXEL_DATA_TYPE_UINT"
PixelDataType == { FLOAT, HALF, UINT }

\* Channel::m_x_stride, in 16-bit units (2 bytes for half, 4 bytes otherwise)
UnitsOf(type) == IF type = HALF THEN 1 ELSE 2

\* Channel::Channel: the buffer holds m_y_stride * m_line_count bytes
BufferUnits(type, width, height) == UnitsOf(type) * width * height

\* Unit n (one-based) of a buffer.  A read past the end of the buffer is
\* undefined behaviour; when the process survives it, the read yields `g`.
UnitAt(buf, n, g) == IF n <= Len(buf) THEN buf[n] ELSE g

\* template<typename T> clamp
clamp(x, lo, hi) == IF x < lo THEN lo ELSE IF x > hi THEN hi ELSE x

\* The float val * 255.f for the 32-bit float with units (lo, hi), rounded as
\* the float product is and then truncated towards zero, as an integer.  Only
\* its position relative to [0, 255] matters to clamp, so every value below 0
\* is given as -1 and every value above 255 as 256.  NaN bit patterns
\* (exponent 255, mantissa not 0) are outside the model: converting NaN to
\* guchar is undefined.
FloatTimes255(lo, hi) ==
  LET s == hi \div 32768
      e == (hi % 32768) \div 128
      m == (hi % 128) * 65536 + lo
      M == 8388608 + m
      Mh == M \div 256
      Ml == M % 256
      \* 255 * M has 32 bits when M >= 8421505, else 31: the float product
      \* keeps 24 of them, rounding to nearest, ties to even
      D == IF M >= 8421505 THEN 256 ELSE 128
      d == IF M >= 8421505 THEN 8 ELSE 7
      A == 255 * Mh * (256 \div D) + (255 * Ml) \div D
      r == (255 * Ml) % D
      Q == IF 2 * r > D THEN A + 1
           ELSE IF 2 * r = D THEN A + (A % 2)
           ELSE A
  IN CASE e = 255 /\ m = 0 -> IF s = 1 THEN -1 ELSE 256
       [] e < 255 /\ s = 1 -> IF e = 0 /\ m = 0 THEN 0 ELSE -1
       [] e < 255 /\ s = 0 /\ e >= 127 -> IF e = 127 /\ m = 0 THEN 255 ELSE 256
       [] e < 255 /\ s = 0 /\ e <= 118 -> 0
       [] e < 255 /\ s = 0 /\ e > 118 /\ e < 127 -> Q \div (2 ^ (150 - e - d))

\* The same for the 16-bit half with unit u: half -> float and the product
\* with 255.f are exact.
HalfTimes255(u) ==
  LET s == u \div 32768
      e == (u % 32768) \div 1024
      m == u % 1024
  IN CASE e = 31 /\ m = 0 -> IF s = 1 THEN -1 ELSE 256
       [] e < 31 /\ s = 1 -> IF e = 0 /\ m = 0 THEN 0 ELSE -1
       [] e < 31 /\ s = 0 /\ e >= 15 -> IF e = 15 /\ m = 0 THEN 255 ELSE 256
       [] e < 31 /\ s = 0 /\ e <= 6 -> 0
       [] e < 31 /\ s = 0 /\ e > 6 /\ e < 15 -> (255 * (1024 + m)) \div (2 ^ (25 - e))

\* The same for the 32-bit unsigned integer with units (lo, hi):
\* float val = u * 1u; val * 255.f
UIntTimes255(lo, hi) ==
  IF hi > 0 THEN 256
  ELSE IF lo > 1 THEN 256
  ELSE lo * 255

\* Sample k (zero-based) of buffer buf read through a float*, as val * 255.f
ReadFloatTimes255(buf, k, g) ==
  FloatTimes255(UnitAt(buf, 2 * k + 1, g), UnitAt(buf, 2 * k + 2, g))

\* ... read through a half*
ReadHalfTimes255(buf, k, g) == HalfTimes255(UnitAt(buf, k + 1, g))

\* ... read through an unsigned int*
ReadUIntTimes255(buf, k, g) ==
  UIntTimes255(UnitAt(buf, 2 * k + 1, g), UnitAt(buf, 2 * k + 2, g))

\* The mutant of convert_to_ldr: the output is not clamped from above, the
\* byte keeps the low 8 bits.
convert_to_ldr_noclamp(pixel_count, data_type, input, g) ==
  LET channel_count == Len(input) IN
  [ n \in 1 .. (pixel_count * channel_count) |->
      LET pixel == (n - 1) \div channel_count
          j == (n - 1) % channel_count
          x == CASE data_type = FLOAT -> ReadFloatTimes255(input[j + 1], pixel, g)
                 [] data_type = HALF -> ReadHalfTimes255(input[j + 1], pixel, g)
                 [] data_type = UINT -> ReadUIntTimes255(input[j + 1], pixel, g)
      IN IF x < 0 THEN 0 ELSE x % 256 ]

\* convert_to_ldr: (*output)[channel_count * i + j] = clamp(val * 255.f, 0.f, 255.f),
\* the float result converted to guchar (truncated).  Output index n is one-based.
convert_to_ldr(pixel_count, data_type, input, g) ==
  LET channel_count == Len(input) IN
  [ n \in 1 .. (pixel_count * channel_count) |->
      LET pixel == (n - 1) \div channel_count
          j == (n - 1) % channel_count
      IN CASE data_type = FLOAT ->
                clamp(ReadFloatTimes255(input[j + 1], pixel, g), 0, 255)
           [] data_type = HALF ->
                clamp(ReadHalfTimes255(input[j + 1], pixel, g), 0, 255)
           [] data_type = UINT ->
                clamp(ReadUIntTimes255(input[j + 1], pixel, g), 0, 255) ]

\* chroma_to_ldr: FLOAT and UINT share the float* branch, HALF has its own.
chroma_to_ldr(width, height, data_type, input, g) ==
  LET channel_count == Len(input)
      Rd(buf, k) == IF data_type = HALF THEN ReadHalfTimes255(buf, k, g)
                    ELSE ReadFloatTimes255(buf, k, g)
  IN
  [ n \in 1 .. (width * height * channel_count) |->
      LET ix == (n - 1) \div channel_count
          c == (n - 1) % channel_count
          y == ix \div width
          x == ix % width
          six == (y \div 2) * width + (x \div 2)
      IN CASE c = 0 -> clamp(Rd(input[1], ix), 0, 255)
           [] c = 1 -> clamp(Rd(input[2], six), 0, 255)
           [] c = 2 -> clamp(Rd(input[3], six), 0, 255)
           [] c = 3 -> clamp(Rd(input[4], ix), 0, 255) ]

-----------------------------------------------------------------------------
(* exr::File *)

\* File::is_loaded
is_loaded_always == TRUE
is_loaded == m_loaded

\* File::get_layer_count
get_layer_count == Len(m_layers)

\* The mutant of get_layer_at: the layers are counted from the back.
get_layer_at_reversed(index) ==
  IF index < Len(m_layers) THEN m_layers[Len(m_layers) - index] ELSE NULL

\* File::get_layer_at (zero-based index)
get_layer_at(index) == IF index < Len(m_layers) THEN m_layers[index + 1] ELSE NULL

\* The mutant of insert_layer: the layer is stored over the list, not pushed
\* on its back.
insert_layer_overwrite(f, l) ==
  [ m_index |-> MapInsert(f.m_index, l.m_name, 0), m_layers |-> << l >> ]

\* File::insert_layer, on the pair f = [m_index, m_layers]
insert_layer(f, l) ==
  [ m_index |-> MapInsert(f.m_index, l.m_name, Len(f.m_layers)),
    m_layers |-> Append(f.m_layers, l) ]

\* Position of the last "." in a string, 0 when there is none
RECURSIVE LastDot(_, _)
LastDot(s, n) == IF n = 0 THEN 0 ELSE IF s[n] = "." THEN n ELSE LastDot(s, n - 1)

\* The mutant of split_full_channel_name: the name is split at its first dot.
split_at_first_dot(input) ==
  IF \A n \in 1 .. Len(input) : input[n] # "."
  THEN [ layer_name |-> << >>, channel_name |-> input ]
  ELSE LET d == CHOOSE n \in 1 .. Len(input) :
                  input[n] = "." /\ \A e \in 1 .. (n - 1) : input[e] # "."
       IN [ layer_name |-> SubSeq(input, 1, d - 1),
            channel_name |-> SubSeq(input, d + 1, Len(input)) ]

\* File::split_full_channel_name: "AO.G" -> layer "AO", channel "G"; a name
\* without a dot belongs to the default layer, whose name is empty.
split_full_channel_name(input) ==
  LET d == LastDot(input, Len(input)) IN
  IF d = 0 THEN [ layer_name |-> << >>, channel_name |-> input ]
  ELSE [ layer_name |-> SubSeq(input, 1, d - 1),
         channel_name |-> SubSeq(input, d + 1, Len(input)) ]

\* The grouping pass of File::load: every decoded channel goes to the layer
\* its full name names, a layer being created when its first channel arrives.
RECURSIVE GroupChannels(_, _, _, _)
GroupChannels(f, channels, k, dotted) ==
  IF k > Len(channels) THEN f
  ELSE
    LET c == channels[k]
        sp == split_full_channel_name(c.name)
        ch == NewChannel(sp.channel_name, c.type, c.data)
    IN IF (sp.layer_name # << >>) # dotted THEN GroupChannels(f, channels, k + 1, dotted)
       ELSE IF sp.layer_name \in DOMAIN f.m_index
       THEN GroupChannels(
              [ f EXCEPT !.m_layers[f.m_index[sp.layer_name] + 1] = insert_channel(@, ch) ],
              channels, k + 1, dotted)
       ELSE GroupChannels(insert_layer(f, insert_channel(NewLayer(sp.layer_name), ch)),
                          channels, k + 1, dotted)

\* The layers of a loaded file: the prefixed layers in the decoder's (alphabetical)
\* channel order, then the default layer of the channels without a prefix.
GroupAll(channels) ==
  GroupChannels(GroupChannels([ m_index |-> << >>, m_layers |-> << >> ], channels, 1, TRUE),
                channels, 1, FALSE)

\* What the run of File::load meets: the file is not an OpenEXR file, the
\* decoder throws while opening, it throws in readPixels, or all goes well.
LoadOutcomes == { "not_exr", "throw_open", "throw_read", "ok" }

\* File::load
load ==
  /\ load_state = "fresh"
  /\ pc = "idle"
  /\ \E outcome \in LoadOutcomes :
       CASE outcome = "not_exr" ->
              /\ error_msg' = "file is not a valid OpenEXR file"
              /\ load_state' = "failed"
              /\ UNCHANGED << m_loaded, m_width, m_height, m_index, m_layers, m_channels >>
         [] outcome = "throw_open" ->
              /\ error_msg' = "e.what()"
              /\ load_state' = "failed"
              /\ UNCHANGED << m_loaded, m_width, m_height, m_index, m_layers, m_channels >>
         [] outcome = "throw_read" ->
              /\ m_width' = exr.width
              /\ m_height' = exr.height
              /\ m_index' = GroupAll(exr.channels).m_index
              /\ m_layers' = GroupAll(exr.channels).m_layers
              /\ m_channels' = [ n \in 1 .. Len(exr.channels) |-> n ]
              /\ error_msg' = "e.what()"
              /\ load_state' = "failed"
              /\ UNCHANGED m_loaded
         [] outcome = "ok" ->
              /\ m_width' = exr.width
              /\ m_height' = exr.height
              /\ m_index' = GroupAll(exr.channels).m_index
              /\ m_layers' = GroupAll(exr.channels).m_layers
              /\ m_channels' = [ n \in 1 .. Len(exr.channels) |-> n ]
              /\ m_loaded' = TRUE
              /\ load_state' = "ok"
              /\ UNCHANGED error_msg
  /\ UNCHANGED << exr, deleted, pc, grayscale, i, image_id, ret, gimp, heap >>
  /\ UNCHANGED layerVars

-----------------------------------------------------------------------------
(* The GIMP sink *)

\* Bytes per pixel of a drawable of the given GimpImageType: what
\* gimp_pixel_rgn_set_rect copies per pixel out of the buffer it is handed.
GimpBpp(type) ==
  CASE type = "GIMP_GRAY_IMAGE" -> 1
    [] type = "GIMP_GRAYA_IMAGE" -> 2
    [] type = "GIMP_RGB_IMAGE" -> 3
    [] type = "GIMP_RGBA_IMAGE" -> 4

\* The sink before gimp_image_new: no image yet
NoImage == [ type |-> "none", width |-> 0, height |-> 0 ]

\* What gimp_image_new can answer
ImageOutcomes == { "ok", "image_new_fails" }

\* Where add_layer can be refused: gimp_layer_new returns -1,
\* gimp_image_insert_layer returns FALSE, gimp_drawable_get returns NULL.
AddLayerOutcomes == { "ok", "layer_new_fails", "insert_fails", "drawable_fails" }

\* The mutant of create_gimp_image: the id gimp_image_new returns is not tested.
create_gimp_image_unchecked(type, width, height, outcome) ==
  [ ok |-> TRUE, image_id |-> IF outcome = "image_new_fails" THEN -1 ELSE 1, error_msg |-> "",
    gimp |-> [ gimp EXCEPT !.image = IF outcome = "image_new_fails" THEN @
                                     ELSE [ type |-> type, width |-> width, height |-> height ],
                           !.calls = Append(@, [ op |-> "gimp_image_new", type |-> type,
                                                 width |-> width, height |-> height,
                                                 ok |-> outcome # "image_new_fails" ]) ] ]

\* create_gimp_image: the sink after the call, the id and the message
create_gimp_image(type, width, height, outcome) ==
  IF outcome = "image_new_fails"
  THEN [ ok |-> FALSE, image_id |-> -1, error_msg |-> "failed to create GIMP image",
         gimp |-> [ gimp EXCEPT !.calls = Append(@, [ op |-> "gimp_image_new", type |-> type,
                                                      width |-> width, height |-> height,
                                                      ok |-> FALSE ]) ] ]
  ELSE [ ok |-> TRUE, image_id |-> 1, error_msg |-> "",
         gimp |-> [ gimp EXCEPT !.image = [ type |-> type, width |-> width, height |-> height ],
                                !.calls = Append(@, [ op |-> "gimp_image_new", type |-> type,
                                                      width |-> width, height |-> height,
                                                      ok |-> TRUE ]) ] ]

\* The mutant of add_layer: a refusal is returned without a message.
add_layer_nomsg(type, layer_name, width, height, data, outcome, index) ==
  LET call == [ op |-> "add_layer", index |-> index, type |-> type, name |-> layer_name,
                width |-> width, height |-> height, data |-> data, outcome |-> outcome ]
      logged == [ gimp EXCEPT !.calls = Append(@, call) ]
  IN IF outcome \in { "layer_new_fails", "insert_fails" }
     THEN [ ok |-> FALSE, error_msg |-> "", gimp |-> logged ]
     ELSE [ ok |-> outcome = "ok", error_msg |-> "",
            gimp |-> [ logged EXCEPT !.layers =
                         Append(@, [ name |-> layer_name, type |-> type,
                                     pixels |-> IF outcome = "ok"
                                                THEN SubSeq(data, 1, width * height * GimpBpp(type))
                                                ELSE << >> ]) ] ]

\* add_layer.  `index` is not a parameter of the code: it tags the logged
\* call with the File layer the call was made for.  A layer the sink took
\* (gimp_image_insert_layer succeeded) stays attached to the image:
\* gimp_item_delete only destroys items not yet added to an image.  On success
\* gimp_pixel_rgn_set_rect copies width * height * bpp bytes out of `data`.
add_layer(type, layer_name, width, height, data, outcome, index) ==
  LET call == [ op |-> "add_layer", index |-> index, type |-> type, name |-> layer_name,
                width |-> width, height |-> height, data |-> data, outcome |-> outcome ]
      logged == [ gimp EXCEPT !.calls = Append(@, call) ]
  IN CASE outcome = "layer_new_fails" ->
            [ ok |-> FALSE, error_msg |-> "failed to create layer", gimp |-> logged ]
       [] outcome = "insert_fails" ->
            [ ok |-> FALSE, error_msg |-> "failed to add layer", gimp |-> logged ]
       [] outcome = "drawable_fails" ->
            [ ok |-> FALSE, error_msg |-> "failed to get drawable for layer",
              gimp |-> [ logged EXCEPT !.layers = Append(@, [ name |-> layer_name, type |-> type,
                                                              pixels |-> << >> ]) ] ]
       [] outcome = "ok" ->
            [ ok |-> TRUE, error_msg |-> "",
              gimp |-> [ logged EXCEPT !.layers =
                           Append(@, [ name |-> layer_name, type |-> type,
                                       pixels |-> SubSeq(data, 1, width * height * GimpBpp(type)) ]) ] ]

-----------------------------------------------------------------------------
(* Converter::convert *)

\* layer_type_to_string: the labels of its switch lack `case`, so every type
\* reaches `default`.
layer_type_to_string(type) == "unknown"

\* The mutant of all_layers_grayscale: only the first layer is looked at.
RECURSIVE all_layers_grayscale_first(_)
all_layers_grayscale_first(k) ==
  IF k >= get_layer_count THEN TRUE
  ELSE determine_layer_type(get_layer_at(k)) \in { "Y", "YA" }

\* The first loop of convert, from index k on: grayscale stays true unless
\* some layer is neither Y nor YA.
RECURSIVE all_layers_grayscale(_)
all_layers_grayscale(k) ==
  IF k >= get_layer_count THEN TRUE
  ELSE IF determine_layer_type(get_layer_at(k)) \notin { "Y", "YA" } THEN FALSE
  ELSE all_layers_grayscale(k + 1)

\* The mutant of InputNames: the chroma case pushes RY before Y.
InputNames_chroma_first(type, gray) ==
  CASE type = "RGBA" -> << Str1("R"), Str1("G"), Str1("B"), Str1("A") >>
    [] type = "RGB" -> << Str1("R"), Str1("G"), Str1("B") >>
    [] type = "Y" -> IF gray THEN << Str1("Y") >> ELSE << Str1("Y"), Str1("Y"), Str1("Y") >>
    [] type = "YA" -> IF gray THEN << Str1("Y"), Str1("A") >>
                      ELSE << Str1("Y"), Str1("Y"), Str1("Y"), Str1("A") >>
    [] type \in { "YC", "YCA" } -> << Str2("R", "Y"), Str1("Y"), Str2("B", "Y") >>

\* The channels whose buffers convert pushes on `input`, in order, by
\* layer->get_channel(name)->get_data()
InputNames(type, gray) ==
  CASE type = "RGBA" -> << Str1("R"), Str1("G"), Str1("B"), Str1("A") >>
    [] type = "RGB" -> << Str1("R"), Str1("G"), Str1("B") >>
    [] type = "Y" -> IF gray THEN << Str1("Y") >> ELSE << Str1("Y"), Str1("Y"), Str1("Y") >>
    [] type = "YA" -> IF gray THEN << Str1("Y"), Str1("A") >>
                      ELSE << Str1("Y"), Str1("Y"), Str1("Y"), Str1("A") >>
    [] type \in { "YC", "YCA" } -> << Str1("Y"), Str2("R", "Y"), Str2("B", "Y") >>

\* The channel whose get_pixel_data_type() is handed to the kernel
TypeSourceName(type) == IF type \in { "RGBA", "RGB" } THEN Str1("R") ELSE Str1("Y")

\* The GimpImageType handed to add_layer
GimpLayerType(type) ==
  CASE type = "RGBA" -> "GIMP_RGBA_IMAGE"
    [] type = "RGB" -> "GIMP_RGB_IMAGE"
    [] type = "Y" -> "GIMP_GRAY_IMAGE"
    [] type = "YA" -> "GIMP_GRAYA_IMAGE"
    [] type \in { "YC", "YCA" } -> "GIMP_RGB_IMAGE"

\* Whether the case deletes `output` after a successful add_layer
DeletesOnSuccess(type) == type \notin { "YC", "YCA" }

\* What a read past the end of a channel buffer can do: fault, or yield
\* whatever unit lies there.
OobOutcomes == { "segv", "read" }

\* The units such a read can yield (whatever the heap holds there)
OobGarbage == { 0, 15360 }

\* What calling get_data() through the null alpha_channel can do: fault, or
\* (the compiler taking the dereference as unreachable) the push not happening.
NullAlphaOutcomes == { "segv", "skipped" }

\* The largest sample index the kernels read in input n (one-based): every
\* pixel index for convert_to_ldr and for the luminance and alpha inputs of
\* chroma_to_ldr, the half-resolution index six for its two chroma inputs.
MaxIndexRead(chroma, n, width, height) ==
  IF chroma /\ n \in { 2, 3 }
  THEN ((height - 1) \div 2) * width + ((width - 1) \div 2)
  ELSE width * height - 1

\* Whether the kernel reads input buffer buf past its end
ReadsPastEnd(buf, data_type, chroma, n, width, height) ==
  UnitsOf(data_type) * (MaxIndexRead(chroma, n, width, height) + 1) > Len(buf)

\* convert, from its start to the creation of the image
convert_begin ==
  /\ pc = "idle"
  /\ ret = "none"
  /\ IF ~ is_loaded
     THEN /\ error_msg' = "file not loaded in memory"
          /\ ret' = "false"
          /\ pc' = "done"
          /\ UNCHANGED << grayscale, i, image_id, gimp, heap >>
     ELSE \E outcome \in ImageOutcomes :
            LET gray == all_layers_grayscale(0)
                r == create_gimp_image(IF gray THEN "GIMP_GRAY" ELSE "GIMP_RGB",
                                       m_width, m_height, outcome)
            IN /\ grayscale' = gray
               /\ image_id' = r.image_id
               /\ gimp' = r.gimp
               /\ IF r.ok
                  THEN /\ error_msg' = ""
                       /\ pc' = "loop"
                       /\ i' = 0
                       /\ UNCHANGED ret
                  ELSE /\ error_msg' = r.error_msg
                       /\ ret' = "false"
                       /\ pc' = "done"
                       /\ UNCHANGED i
               /\ UNCHANGED heap
  /\ UNCHANGED fileVars
  /\ UNCHANGED layerVars

\* One turn of convert's second loop, for layer i
convert_layer ==
  /\ pc = "loop"
  /\ i < get_layer_count
  /\ LET l == get_layer_at(i)
         type == determine_layer_type(l)
     IN
     IF type = "UNDEFINED"
     THEN /\ error_msg' = "not implemented: " \o layer_type_to_string(type)
          /\ ret' = "false"
          /\ pc' = "done"
          /\ UNCHANGED << grayscale, i, image_id, gimp, heap >>
     ELSE
       LET names == InputNames(type, grayscale)
           \* every get_channel(name)-> ... dereferences the pointer returned
           nullDeref == \E n \in 1 .. Len(names) : get_channel(l, names[n]) = NULL
       IN
       IF nullDeref \/ get_channel(l, TypeSourceName(type)) = NULL
       THEN /\ pc' = "crashed"
            /\ UNCHANGED << error_msg, grayscale, i, image_id, ret, gimp, heap >>
       ELSE
         \E outcome \in AddLayerOutcomes, oob \in OobOutcomes, g \in OobGarbage,
            na \in NullAlphaOutcomes :
           LET input == [ n \in 1 .. Len(names) |-> get_channel(l, names[n]).m_buffer ]
               data_type == get_channel(l, TypeSourceName(type)).m_pixel_data_type
               chroma == type \in { "YC", "YCA" }
               \* find_channel("A", alpha_channel) leaves alpha_channel NULL
               nullAlpha == chroma /\ find_channel(l, Str1("A"))
               kernel_type == IF chroma /\ data_type = UINT THEN FLOAT ELSE data_type
               pastEnd == \E n \in 1 .. Len(input) :
                            ReadsPastEnd(input[n], kernel_type, chroma, n, m_width, m_height)
               output == IF chroma
                         THEN chroma_to_ldr(m_width, m_height, data_type, input, g)
                         ELSE convert_to_ldr(m_width * m_height, data_type, input, g)
               r == add_layer(GimpLayerType(type), l.m_name, m_width, m_height,
                              output, outcome, i)
           IN
           IF (nullAlpha /\ na = "segv") \/ (pastEnd /\ oob = "segv")
           THEN /\ pc' = "crashed"
                /\ UNCHANGED << error_msg, grayscale, i, image_id, ret, gimp, heap >>
           ELSE
             /\ gimp' = r.gimp
             /\ IF r.ok
                THEN /\ heap' = Append(heap, IF DeletesOnSuccess(type) THEN "freed" ELSE "live")
                     /\ i' = i + 1
                     /\ UNCHANGED << error_msg, ret, pc >>
                ELSE /\ heap' = Append(heap, "freed")
                     /\ error_msg' = r.error_msg
                     /\ ret' = "false"
                     /\ pc' = "done"
                     /\ UNCHANGED i
             /\ UNCHANGED << grayscale, image_id >>
  /\ UNCHANGED fileVars
  /\ UNCHANGED layerVars

\* convert, once every layer is consumed
convert_return ==
  /\ pc = "loop"
  /\ i >= get_layer_count
  /\ ret' = "true"
  /\ pc' = "done"
  /\ UNCHANGED << error_msg, grayscale, i, image_id, gimp, heap >>
  /\ UNCHANGED fileVars
  /\ UNCHANGED layerVars

-----------------------------------------------------------------------------
(* The files the model is run on *)

MaxLayers == 2
MaxWidth == 3
MaxHeight == 3
MaxSeed == 1
MaxChannels == 5

\* Raw samples by encoding.  As float (low unit, high unit): 0.0, 1.0, 0.5,
\* 2.0, -0.5 and 32769/131072 (0x3E800100).  As half: 0.0, 1.0, 0.5, 2.0,
\* -0.5 and 1638/16384 (0x2E66).  As unsigned int: 0, 1, 0x3F800000, 2, 255
\* and 0x3F000000.
FloatSamples == << << 0, 0 >>, << 0, 16256 >>, << 0, 16128 >>, << 0, 16384 >>,
                   << 0, 48896 >>, << 256, 16000 >> >>
HalfSamples == << << 0 >>, << 15360 >>, << 14336 >>, << 16384 >>, << 47104 >>, << 11878 >> >>
UIntSamples == << << 0, 0 >>, << 1, 0 >>, << 0, 16256 >>, << 2, 0 >>, << 255, 0 >>,
                  << 0, 16128 >> >>

SamplesOf(type) ==
  CASE type = FLOAT -> FloatSamples
    [] type = HALF -> HalfSamples
    [] type = UINT -> UIntSamples

\* The buffer of a channel of the given type: pixel k holds sample number
\* (seed + k) modulo the number of samples.
ChannelData(type, width, height, seed) ==
  [ n \in 1 .. BufferUnits(type, width, height) |->
      LET k == (n - 1) \div UnitsOf(type)
          u == (n - 1) % UnitsOf(type)
      IN SamplesOf(type)[((seed + k) % Len(SamplesOf(type))) + 1][u + 1] ]

\* Channel-name sets of one layer, in the decoder's alphabetical order
LayerTemplates ==
  { << Str1("Y") >>,
    << Str1("A"), Str1("Y") >>,
    << Str1("B"), Str1("G"), Str1("R") >>,
    << Str1("A"), Str1("B"), Str1("G"), Str1("R") >>,
    << Str2("B", "Y"), Str2("R", "Y"), Str1("Y") >>,
    << Str1("A"), Str2("B", "Y"), Str2("R", "Y"), Str1("Y") >>,
    << Str1("Z") >>,
    << Str3("B", "G", "R") >>,
    << Str1("A"), Str1("B"), Str1("G"), Str1("R"), Str1("Z") >> }

\* Sample encodings of the channels of a layer, by position in the layer
TypePatterns ==
  { << FLOAT, FLOAT, FLOAT, FLOAT, FLOAT >>,
    << HALF, HALF, HALF, HALF, HALF >>,
    << UINT, UINT, UINT, UINT, UINT >>,
    << HALF, FLOAT, FLOAT, FLOAT, FLOAT >>,
    << FLOAT, FLOAT, HALF, HALF, HALF >> }

\* The name prefix of the p-th layer of a file: none, "L", "LL", ...
LayerPrefix(p) == [ k \in 1 .. (p - 1) |-> "L" ]

FullName(prefix, short) == IF prefix = << >> THEN short ELSE prefix \o << "." >> \o short

\* The decoder's channel list for the layers `templates`
RECURSIVE DecodedChannels(_, _, _, _, _, _)
DecodedChannels(templates, p, types, width, height, seed) ==
  IF p > Len(templates) THEN << >>
  ELSE [ j \in 1 .. Len(templates[p]) |->
           [ name |-> FullName(LayerPrefix(p), templates[p][j]),
             type |-> types[j],
             data |-> ChannelData(types[j], width, height, seed + j + p - 2) ] ]
       \o DecodedChannels(templates, p + 1, types, width, height, seed)

DecodedFile(templates, types, width, height, seed) ==
  [ width |-> width, height |-> height,
    channels |-> DecodedChannels(templates, 1, types, width, height, seed) ]

\* Sequences of at most n layer templates
RECURSIVE TemplateSeqs(_)
TemplateSeqs(n) ==
  IF n = 0 THEN { << >> }
  ELSE TemplateSeqs(n - 1)
       \cup { Append(ts, t) : ts \in { x \in TemplateSeqs(n - 1) : Len(x) = n - 1 },
                              t \in LayerTemplates }

\* Files of several layers at 1x1 and 2x1 pixels, and files of one layer at
\* every size up to MaxWidth x MaxHeight in every encoding pattern.
InputFiles ==
  { DecodedFile(ts, types, d[1], d[2], 0) :
      ts \in TemplateSeqs(MaxLayers),
      types \in { << FLOAT, FLOAT, FLOAT, FLOAT, FLOAT >> },
      d \in { << 1, 1 >>, << 2, 1 >> } }
  \cup
  { DecodedFile(<< t >>, types, w, h, seed) :
      t \in LayerTemplates, types \in TypePatterns,
      w \in 1 .. MaxWidth, h \in 1 .. MaxHeight, seed \in 0 .. MaxSeed }

InitLayerVars ==
  /\ layer = NewLayer(<< >>)
  /\ layer_type = "none"

InitConvVars ==
  /\ error_msg \in { "", "stale" }
  /\ pc = "idle"
  /\ grayscale = FALSE
  /\ i = 0
  /\ image_id = -1
  /\ ret = "none"
  /\ gimp = [ image |-> NoImage, layers |-> << >>, calls |-> << >> ]
  /\ heap = << >>

InitFileVars ==
  /\ m_loaded = FALSE
  /\ m_width = 0
  /\ m_height = 0
  /\ m_index = << >>
  /\ m_layers = << >>
  /\ load_state = "fresh"
  /\ m_channels = << >>
  /\ deleted = [ state |-> "alive", layers |-> << >>, channels |-> << >> ]

Init ==
  /\ exr \in InputFiles
  /\ InitFileVars
  /\ InitConvVars
  /\ InitLayerVars

Next ==
  \/ load
  \/ convert_begin
  \/ convert_layer
  \/ convert_return

Spec == Init /\ [][Next]_vars

-----------------------------------------------------------------------------
(* A layer built on its own through the Layer interface *)

\* Channel names offered to insert_channel: the names of the layouts, an
\* unknown name and a name made of the letters of a layout.
ChannelNames ==
  { Str1("R"), Str1("G"), Str1("B"), Str1("A"), Str1("Y"), Str2("R", "Y"), Str2("B", "Y"),
    Str1("Z"), Str3("B", "G", "R") }

\* Layer::insert_channel of a fresh channel, into a layer of fewer than MaxChannels
LayerInsertChannel ==
  /\ get_channel_count(layer) < MaxChannels
  /\ \E name \in ChannelNames :
       /\ name \notin DOMAIN layer.m_index
       /\ layer' = insert_channel(layer, NewChannel(name, FLOAT, << >>))
  /\ layer_type' = "none"
  /\ UNCHANGED fileVars
  /\ UNCHANGED convVars

\* determine_layer_type(layer)
LayerClassify ==
  /\ layer_type = "none"
  /\ layer_type' = determine_layer_type(layer)
  /\ UNCHANGED layer
  /\ UNCHANGED fileVars
  /\ UNCHANGED convVars

InitLayer ==
  /\ exr = [ width |-> 1, height |-> 1, channels |-> << >> ]
  /\ InitFileVars
  /\ InitConvVars
  /\ error_msg = ""
  /\ InitLayerVars

NextLayer ==
  \/ LayerInsertChannel
  \/ LayerClassify

SpecLayer == InitLayer /\ [][NextLayer]_vars

\* operator< of std::string: lexicographic on the char values
RECURSIVE StrLess(_, _)
StrLess(a, b) ==
  IF b = << >> THEN FALSE
  ELSE IF a = << >> THEN TRUE
  ELSE IF Ord(Head(a)) # Ord(Head(b)) THEN Ord(Head(a)) < Ord(Head(b))
  ELSE StrLess(Tail(a), Tail(b))

\* The keys of a std::map<std::string, ...> in its iteration order (ascending)
RECURSIVE KeysAscending(_)
KeysAscending(keys) ==
  IF keys = { } THEN << >>
  ELSE LET least == CHOOSE x \in keys : \A y \in keys \ { x } : StrLess(x, y)
       IN << least >> \o KeysAscending(keys \ { least })

\* The layer that results from inserting the channels of l in the order `names`
RECURSIVE Reinserted(_, _, _)
Reinserted(l, names, k) ==
  IF k = 0 THEN NewLayer(l.m_name)
  ELSE insert_channel(Reinserted(l, names, k - 1), get_channel(l, names[k]))

\* The same channels, inserted in ascending order of their names
InsertedAscending(l) ==
  LET names == KeysAscending(DOMAIN l.m_index) IN Reinserted(l, names, Len(names))

\* C5: classification is invariant under channel insertion order.  Every
\* insertion order of every channel set is a state of SpecLayer, and each is
\* compared with one fixed order of the same channels (ascending names): the
\* classifier gives the layer the type it gives that reordering, so any two
\* insertion orders of the same channels get the same type.
C5_OrderInvariant ==
  layer_type # "none" =>
    determine_layer_type(InsertedAscending(layer)) = layer_type

\* C5 witness: channels R, G, B inserted in an order that is neither
\* ascending nor the order of the table row, classified as RGB
C5_Witness ==
  /\ layer_type = "RGB"
  /\ get_channel_count(layer) = 3
  /\ get_channel_at(layer, 0).m_name = Str1("G")
  /\ get_channel_at(layer, 1).m_name = Str1("R")
  /\ get_channel_at(layer, 2).m_name = Str1("B")

\* The type the table of layouts gives a set of channel names
TableType(names) ==
  CASE names = { Str1("Y") } -> "Y"
    [] names = { Str1("Y"), Str1("A") } -> "YA"
    [] names = { Str1("Y"), Str2("R", "Y"), Str2("B", "Y") } -> "YC"
    [] names = { Str1("Y"), Str2("R", "Y"), Str2("B", "Y"), Str1("A") } -> "YCA"
    [] names = { Str1("R"), Str1("G"), Str1("B") } -> "RGB"
    [] names = { Str1("R"), Str1("G"), Str1("B"), Str1("A") } -> "RGBA"
    [] OTHER -> "UNDEFINED"

\* C4: the classifier returns the type of the table row whose channel names
\* are the layer's, and Undefined for every other layer: more than four
\* channels, no channel, or a channel name that is not in the row.
C4_ClassifierMatchesTable ==
  layer_type # "none" =>
    layer_type = TableType({ layer.m_channels[k].m_name : k \in 1 .. Len(layer.m_channels) })

-----------------------------------------------------------------------------
(* What convert was handed and what it handed to the sink *)

\* The positions in the sink's call log of the add_layer calls
AddLayerCalls == { n \in 1 .. Len(gimp.calls) : gimp.calls[n].op = "add_layer" }

\* The File layer an add_layer call was made for, and its type
CallLayer(c) == m_layers[c.index + 1]
CallType(c) == determine_layer_type(CallLayer(c))

\* The values of the samples of FloatSamples, HalfSamples and UIntSamples, as
\* fractions << numerator, denominator >>
FloatValues == << << 0, 1 >>, << 1, 1 >>, << 1, 2 >>, << 2, 1 >>, << -1, 2 >>,
                  << 32769, 131072 >> >>
HalfValues == << << 0, 1 >>, << 1, 1 >>, << 1, 2 >>, << 2, 1 >>, << -1, 2 >>,
                 << 1638, 16384 >> >>
UIntValues == << << 0, 1 >>, << 1, 1 >>, << 1065353216, 1 >>, << 2, 1 >>, << 255, 1 >>,
                 << 1056964608, 1 >> >>

ValuesOf(type) ==
  CASE type = FLOAT -> FloatValues
    [] type = HALF -> HalfValues
    [] type = UINT -> UIntValues

\* The value of sample k (zero-based) of a channel, in the channel's own encoding
SampleValue(ch, k) ==
  LET type == ch.m_pixel_data_type
      units == SubSeq(ch.m_buffer, UnitsOf(type) * k + 1, UnitsOf(type) * (k + 1))
      n == CHOOSE x \in 1 .. Len(SamplesOf(type)) : SamplesOf(type)[x] = units
  IN ValuesOf(type)[n]

\* v * 255 limited to [0, 255] and truncated, for the fraction v
Truncated255(v) ==
  IF v[1] <= 0 THEN 0
  ELSE IF v[1] >= v[2] THEN 255
  ELSE (255 * v[1]) \div v[2]

\* v * 255 limited to [0, 255] and rounded to the nearest integer
Rounded255(v) ==
  IF v[1] <= 0 THEN 0
  ELSE IF v[1] >= v[2] THEN 255
  ELSE (2 * 255 * v[1] + v[2]) \div (2 * v[2])

\* The encoding convert hands the kernel for the layer of call c
CallDataType(c) ==
  get_channel(CallLayer(c), TypeSourceName(CallType(c))).m_pixel_data_type

\* The channel names whose samples make up one output pixel of a layer of
\* the given type and bytes per pixel, as the specification orders them
PixelChannels(type, bpp) ==
  CASE type = "RGB" -> << Str1("R"), Str1("G"), Str1("B") >>
    [] type = "RGBA" -> << Str1("R"), Str1("G"), Str1("B"), Str1("A") >>
    [] type = "Y" -> [ j \in 1 .. bpp |-> Str1("Y") ]
    [] type = "YA" -> [ j \in 1 .. bpp |-> IF j < bpp THEN Str1("Y") ELSE Str1("A") ]

\* Bytes per pixel of the buffer of call c
CallBpp(c) == Len(c.data) \div (c.width * c.height)

-----------------------------------------------------------------------------
(* Claims on Converter::convert *)

\* C1: convert on a File whose is_loaded() is false returns failure with the
\* "not loaded" message and makes no sink call: no image is created and no
\* layer is appended, also when a failed load left layers in the File.
C1_NotLoadedFails ==
  ~ m_loaded =>
    /\ pc \in { "idle", "done" }
    /\ gimp = [ image |-> NoImage, layers |-> << >>, calls |-> << >> ]
    /\ pc = "done" => (ret = "false" /\ error_msg = "file not loaded in memory")

\* C1 witness: convert has returned on a File that a failed load left with layers
C1_Witness ==
  /\ pc = "done"
  /\ ~ m_loaded
  /\ load_state = "failed"
  /\ m_layers # << >>

\* C2: for a loaded File convert asks the sink for a grayscale image exactly
\* when every layer classifies as Y or YA, wherever the layers stand in the
\* file, and for an RGB image otherwise.
C2_GrayscaleIffAllY ==
  (m_loaded /\ pc # "idle") =>
    /\ Len(gimp.calls) >= 1
    /\ gimp.calls[1].op = "gimp_image_new"
    /\ gimp.calls[1].type \in { "GIMP_GRAY", "GIMP_RGB" }
    /\ gimp.calls[1].type = "GIMP_GRAY" <=>
         \A k \in 1 .. Len(m_layers) : determine_layer_type(m_layers[k]) \in { "Y", "YA" }
    /\ \A n \in 2 .. Len(gimp.calls) : gimp.calls[n].op # "gimp_image_new"
    /\ gimp.image.type \in { "none", gimp.calls[1].type }

\* C2 witness: an RGB image was created for a file whose first layer is
\* grayscale and whose last is not
C2_Witness ==
  /\ gimp.image.type = "GIMP_RGB"
  /\ Len(m_layers) = 2
  /\ determine_layer_type(m_layers[1]) \in { "Y", "YA" }
  /\ determine_layer_type(m_layers[2]) = "RGB"

\* Layer k (zero-based) is Undefined or its append was refused by the sink
FailsAt(k) ==
  \/ determine_layer_type(m_layers[k + 1]) = "UNDEFINED"
  \/ \E n \in AddLayerCalls : gimp.calls[n].index = k /\ gimp.calls[n].outcome # "ok"

\* C3: when layer k is the first that classifies as Undefined or whose append
\* the sink refuses, convert returns failure, the sink holds exactly the
\* layers 0 .. k-1, and no call was made for a layer after k.
C3_StopOnFirstFailure ==
  (m_loaded /\ pc \in { "done", "crashed" } /\ gimp.image # NoImage) =>
    \A k \in 0 .. (Len(m_layers) - 1) :
      (FailsAt(k) /\ \A j \in 0 .. (k - 1) : ~ FailsAt(j)) =>
        /\ pc = "done"
        /\ ret = "false"
        /\ Len(gimp.layers) = k
        /\ \A j \in 1 .. Len(gimp.layers) : gimp.layers[j].name = m_layers[j].m_name
        /\ \A n \in AddLayerCalls : gimp.calls[n].index <= k

\* C6 (as stated): every byte of an RGB, RGBA, Y or YA conversion is the
\* sample times 255, limited to [0, 255] and rounded to the nearest integer.
C6_RoundedScale ==
  \A n \in AddLayerCalls :
    LET c == gimp.calls[n] IN
    CallType(c) \in { "RGB", "RGBA", "Y", "YA" } =>
      \A b \in 1 .. Len(c.data) :
        LET ch == get_channel(CallLayer(c),
                              PixelChannels(CallType(c), CallBpp(c))[((b - 1) % CallBpp(c)) + 1])
        IN ch.m_pixel_data_type = CallDataType(c) =>
             c.data[b] = Rounded255(SampleValue(ch, (b - 1) \div CallBpp(c)))

\* The bits of element k of a buffer decoded in the given encoding, times 255
DecodedTimes255(type, buf, k) ==
  CASE type = FLOAT -> FloatTimes255(buf[2 * k + 1], buf[2 * k + 2])
    [] type = HALF -> HalfTimes255(buf[k + 1])
    [] type = UINT -> UIntTimes255(buf[2 * k + 1], buf[2 * k + 2])

\* C6 (amended): every byte of an RGB, RGBA, Y or YA conversion lies in
\* 0 .. 255 and is the sample, as decoded in the encoding the conversion
\* reads with, times 255, limited to [0, 255] and truncated, not rounded:
\* 0.5 gives 127.  For a sample stored in that encoding the byte is checked
\* against the sample's value; for one stored in another encoding, against
\* the bits the read covers when these lie inside the buffer.
C6_TruncatedScale ==
  \A n \in AddLayerCalls :
    LET c == gimp.calls[n] IN
    CallType(c) \in { "RGB", "RGBA", "Y", "YA" } =>
      \A b \in 1 .. Len(c.data) :
        LET ch == get_channel(CallLayer(c),
                              PixelChannels(CallType(c), CallBpp(c))[((b - 1) % CallBpp(c)) + 1])
            k == (b - 1) \div CallBpp(c)
        IN /\ c.data[b] \in 0 .. 255
           /\ ch.m_pixel_data_type = CallDataType(c) =>
                c.data[b] = Truncated255(SampleValue(ch, k))
           /\ (/\ ch.m_pixel_data_type # CallDataType(c)
               /\ UnitsOf(CallDataType(c)) * (k + 1) <= Len(ch.m_buffer)) =>
                c.data[b] = clamp(DecodedTimes255(CallDataType(c), ch.m_buffer, k), 0, 255)

\* C6 witness: a half-encoded RGB layer of six pixels went to the sink, whose
\* R samples 2.0, -0.5, 1638/16384, 0.0, 1.0, 0.5 became 255, 0, 25, 0, 255, 127
C6_Witness ==
  \E n \in AddLayerCalls :
    LET c == gimp.calls[n] IN
    /\ CallType(c) = "RGB"
    /\ CallDataType(c) = HALF
    /\ Len(c.data) = 18
    /\ get_channel(CallLayer(c), Str1("R")).m_buffer = << 16384, 47104, 11878, 0, 15360, 14336 >>
    /\ [ k \in 1 .. 6 |-> c.data[3 * k - 2] ] = << 255, 0, 25, 0, 255, 127 >>

\* C7: the buffer of an RGBA layer of width W and height H has 4 * W * H
\* bytes, and byte 4 * i + j is the converted sample i of the j-th of the
\* channels R, G, B, A, whatever order the layer stores them in.
C7_RGBAInterleaved ==
  \A n \in AddLayerCalls :
    LET c == gimp.calls[n] IN
    CallType(c) = "RGBA" =>
      /\ Len(c.data) = 4 * c.width * c.height
      /\ \A k \in 0 .. (c.width * c.height - 1) : \A j \in 0 .. 3 :
           c.data[4 * k + j + 1] =
             Truncated255(SampleValue(get_channel(CallLayer(c),
                                                  PixelChannels("RGBA", 4)[j + 1]), k))

\* C8: in the buffer of a YC or YCA layer the luminance byte of pixel (x, y)
\* is the converted luminance sample at (x, y), and the two chroma bytes are
\* the converted RY and BY samples at (x / 2, y / 2), integer division.
C8_ChromaUpsampled ==
  \A n \in AddLayerCalls :
    LET c == gimp.calls[n] IN
    CallType(c) \in { "YC", "YCA" } =>
      \A k \in 0 .. (c.width * c.height - 1) :
        LET x == k % c.width
            y == k \div c.width
            half_res == (y \div 2) * c.width + (x \div 2)
            l == CallLayer(c)
        IN /\ c.data[CallBpp(c) * k + 1] =
                Truncated255(SampleValue(get_channel(l, Str1("Y")), k))
           /\ c.data[CallBpp(c) * k + 2] =
                Truncated255(SampleValue(get_channel(l, Str2("R", "Y")), half_res))
           /\ c.data[CallBpp(c) * k + 3] =
                Truncated255(SampleValue(get_channel(l, Str2("B", "Y")), half_res))

\* C9: in an RGB image a Y layer is appended as an RGB layer whose three bytes
\* per pixel are the converted Y sample and a YA layer as an RGBA layer of
\* Y, Y, Y, A; in a grayscale image a Y layer is appended as a gray layer of
\* one byte per pixel and a YA layer as a gray-alpha layer of two.
C9_YWidening ==
  \A n \in AddLayerCalls :
    LET c == gimp.calls[n]
        colour == gimp.image.type = "GIMP_RGB"
    IN
    CallType(c) \in { "Y", "YA" } =>
      /\ c.type = CASE CallType(c) = "Y" /\ colour -> "GIMP_RGB_IMAGE"
                    [] CallType(c) = "YA" /\ colour -> "GIMP_RGBA_IMAGE"
                    [] CallType(c) = "Y" /\ ~ colour -> "GIMP_GRAY_IMAGE"
                    [] CallType(c) = "YA" /\ ~ colour -> "GIMP_GRAYA_IMAGE"
      /\ Len(c.data) = GimpBpp(c.type) * c.width * c.height
      /\ \A b \in 1 .. Len(c.data) :
           c.data[b] =
             Truncated255(SampleValue(
               get_channel(CallLayer(c),
                           PixelChannels(CallType(c), GimpBpp(c.type))[((b - 1) % GimpBpp(c.type)) + 1]),
               (b - 1) \div GimpBpp(c.type)))

\* C10: in every add_layer call the buffer holds width * height * channels
\* bytes, channels being those of the layer format the call declares
\* (gray 1, gray-alpha 2, RGB 3, RGBA 4).
C10_BufferMatchesFormat ==
  \A n \in AddLayerCalls :
    Len(gimp.calls[n].data) =
      gimp.calls[n].width * gimp.calls[n].height * GimpBpp(gimp.calls[n].type)

\* C11: when convert returns success the sink's call log is one
\* gimp_image_new with the File's width and height and the mode decided
\* before the layer loop, then one successful add_layer per layer of the
\* File, in File order, each with its layer's name; and in every state the
\* only gimp_image_new is the first call, the image keeping its mode.
C11_SinkCallSequence ==
  /\ \A n \in 2 .. Len(gimp.calls) : gimp.calls[n].op = "add_layer"
  /\ (Len(gimp.calls) >= 1 /\ gimp.calls[1].ok) =>
       gimp.image = [ type |-> gimp.calls[1].type, width |-> gimp.calls[1].width,
                      height |-> gimp.calls[1].height ]
  /\ (pc = "done" /\ ret = "true") =>
       /\ Len(gimp.calls) = Len(m_layers) + 1
       /\ gimp.calls[1] = [ op |-> "gimp_image_new",
                            type |-> IF grayscale THEN "GIMP_GRAY" ELSE "GIMP_RGB",
                            width |-> m_width, height |-> m_height, ok |-> TRUE ]
       /\ \A k \in 1 .. Len(m_layers) :
            /\ gimp.calls[k + 1].index = k - 1
            /\ gimp.calls[k + 1].name = m_layers[k].m_name
            /\ gimp.calls[k + 1].outcome = "ok"
            /\ gimp.calls[k + 1].width = m_width
            /\ gimp.calls[k + 1].height = m_height

\* C11 witness: convert returned success on a File of two layers of
\* different types, on a 2x1 image
C11_Witness ==
  /\ pc = "done"
  /\ ret = "true"
  /\ Len(m_layers) = 2
  /\ determine_layer_type(m_layers[1]) = "RGB"
  /\ determine_layer_type(m_layers[2]) = "Y"
  /\ m_width = 2
  /\ Len(gimp.calls) = 3

\* C12: when gimp_image_new refuses the image, convert has returned failure
\* with the message of create_gimp_image, and nothing else happened: no
\* add_layer call, no layer in the sink, no buffer allocated, the layer
\* loop not entered.
C12_ImageRefused ==
  (Len(gimp.calls) >= 1 /\ gimp.calls[1].op = "gimp_image_new" /\ ~ gimp.calls[1].ok) =>
    /\ pc = "done"
    /\ ret = "false"
    /\ error_msg = "failed to create GIMP image"
    /\ image_id = -1
    /\ Len(gimp.calls) = 1
    /\ gimp.image = NoImage
    /\ gimp.layers = << >>
    /\ heap = << >>
    /\ i = 0

\* C12 witness: the image was refused for a loaded File that has two layers
C12_Witness ==
  /\ m_loaded
  /\ Len(m_layers) = 2
  /\ Len(gimp.calls) = 1
  /\ ~ gimp.calls[1].ok
  /\ pc = "done"

\* C13: once convert has returned, it returned false with a non-empty
\* message or true with an empty one, whatever error_msg held before.
C13_MessageIffFailure ==
  pc = "done" =>
    \/ ret = "false" /\ error_msg # ""
    \/ ret = "true" /\ error_msg = ""

\* C13 witness: convert failed in add_layer at the second layer, after a
\* first layer that went through
C13_Witness ==
  /\ pc = "done"
  /\ ret = "false"
  /\ i = 1
  /\ error_msg = "failed to add layer"

-----------------------------------------------------------------------------
(* File::load on its own, on files with nested layer names *)

MaxLoadChannels == 4

\* Full channel names a file may hold: plain, in a layer, in a nested layer
LoadNames ==
  { << "R" >>, << "G" >>, << "A", ".", "R" >>, << "A", ".", "G" >>,
    << "A", ".", "B", ".", "R" >>, << "A", ".", "B", ".", "G" >> }

\* The payload of each of them: one float pixel, different for each name
LoadSeed(name) ==
  CASE name = << "R" >> -> 0
    [] name = << "G" >> -> 1
    [] name = << "A", ".", "R" >> -> 2
    [] name = << "A", ".", "G" >> -> 3
    [] name = << "A", ".", "B", ".", "R" >> -> 4
    [] name = << "A", ".", "B", ".", "G" >> -> 5

\* The decoder's channel list for a set of names: ascending by name
LoadFile(names) ==
  LET sorted == KeysAscending(names) IN
  [ width |-> 1, height |-> 1,
    channels |-> [ n \in 1 .. Len(sorted) |->
                     [ name |-> sorted[n], type |-> FLOAT,
                       data |-> ChannelData(FLOAT, 1, 1, LoadSeed(sorted[n])) ] ] ]

LoadFiles ==
  { LoadFile(names) : names \in { S \in SUBSET LoadNames : Cardinality(S) <= MaxLoadChannels } }

InitLoad ==
  /\ exr \in LoadFiles
  /\ InitFileVars
  /\ InitConvVars
  /\ InitLayerVars

NextLoad == load

SpecLoad == InitLoad /\ [][NextLoad]_vars

\* The places << layer, position >> of the File that hold a decoded channel
PlacesOf(c) ==
  { p \in { << k, j >> : k \in 1 .. Len(m_layers), j \in 1 .. MaxLoadChannels + 1 } :
      /\ p[2] <= Len(m_layers[p[1]].m_channels)
      /\ m_layers[p[1]].m_channels[p[2]].m_buffer = c.data
      /\ m_layers[p[1]].m_channels[p[2]].m_pixel_data_type = c.type }

\* The positions of the dots of a name
DotsOf(name) == { n \in 1 .. Len(name) : name[n] = "." }

C16_LoadAtomic ==
  /\ load_state = "failed" => (~ m_loaded /\ m_layers = << >> /\ m_index = << >>)
  /\ load_state = "ok" =>
       (m_loaded /\ \A n \in 1 .. Len(exr.channels) : PlacesOf(exr.channels[n]) # { })

-----------------------------------------------------------------------------
(* Claims on the chroma layouts, the lookups and the decoding *)

\* C17: the buffer of a YCA layer has four bytes per pixel, the fourth being
\* the converted alpha sample of that pixel (full resolution), and convert
\* does not stop in a YCA layer; the buffer of a YC layer has three bytes
\* per pixel.
C17_AlphaOfYCA ==
  /\ pc = "crashed" => determine_layer_type(m_layers[i + 1]) # "YCA"
  /\ \A n \in AddLayerCalls :
       LET c == gimp.calls[n] IN
       /\ CallType(c) = "YC" => Len(c.data) = 3 * c.width * c.height
       /\ CallType(c) = "YCA" =>
            /\ Len(c.data) = 4 * c.width * c.height
            /\ \A k \in 0 .. (c.width * c.height - 1) :
                 c.data[4 * k + 4] =
                   Truncated255(SampleValue(get_channel(CallLayer(c), Str1("A")), k))

\* The channel names the conversion of a layer type looks up
LookedUp(type) ==
  CASE type = "RGB" -> { Str1("R"), Str1("G"), Str1("B") }
    [] type = "RGBA" -> { Str1("R"), Str1("G"), Str1("B"), Str1("A") }
    [] type = "Y" -> { Str1("Y") }
    [] type = "YA" -> { Str1("Y"), Str1("A") }
    [] type = "YC" -> { Str1("Y"), Str2("R", "Y"), Str2("B", "Y") }
    [] type = "YCA" -> { Str1("Y"), Str2("R", "Y"), Str2("B", "Y"), Str1("A") }
    [] type = "UNDEFINED" -> { }

\* C18: every channel the conversion of a layer looks up by name for the
\* layer's type is in the layer, so no lookup yields a null channel, and
\* convert never stops inside the conversion of a layer.
C18_LookupsSucceed ==
  /\ pc # "crashed"
  /\ \A k \in 1 .. Len(m_layers) :
       LookedUp(determine_layer_type(m_layers[k])) \subseteq DOMAIN m_layers[k].m_index

\* The index of the sample of input number j that the kernels read for pixel
\* k of a layer of the given type and width
SourceIndex(type, j, k, width) ==
  IF type \in { "YC", "YCA" } /\ j \in { 2, 3 }
  THEN ((k \div width) \div 2) * width + ((k % width) \div 2)
  ELSE k

\* C19: every byte handed to the sink is the converted sample of its source
\* channel decoded in that channel's own encoding, in every layout, also
\* when the channels of a layer differ in encoding and for unsigned int
\* channels in the chroma layouts.
C19_OwnEncoding ==
  \A n \in AddLayerCalls :
    LET c == gimp.calls[n]
        names == InputNames(CallType(c), grayscale)
    IN \A b \in 1 .. Len(c.data) :
         LET j == ((b - 1) % CallBpp(c)) + 1
             k == (b - 1) \div CallBpp(c)
         IN c.data[b] =
              Truncated255(SampleValue(get_channel(CallLayer(c), names[j]),
                                       SourceIndex(CallType(c), j, k, c.width)))

\* The encoding the kernel decodes the layer of call c with: that of channel
\* R or Y, chroma_to_ldr taking unsigned int for float
CallKernelType(c) ==
  IF CallType(c) \in { "YC", "YCA" } /\ CallDataType(c) = UINT THEN FLOAT ELSE CallDataType(c)

\* Byte `byte` of call c is element idx of the buffer of channel ch, as the
\* kernel decodes it: checked against the sample's value when the channel is
\* stored in the encoding read, else against the bits the read covers when
\* these lie inside the buffer.
ConvertedFrom(byte, c, ch, idx) ==
  IF ch.m_pixel_data_type = CallKernelType(c)
  THEN byte = Truncated255(SampleValue(ch, idx))
  ELSE IF UnitsOf(CallKernelType(c)) * (idx + 1) <= Len(ch.m_buffer)
  THEN byte = clamp(DecodedTimes255(CallKernelType(c), ch.m_buffer, idx), 0, 255)
  ELSE byte \in 0 .. 255

\* C20 (as stated): the first three bytes of every pixel of a YC or YCA
\* buffer are, in order, the first chroma (RY), the luminance (Y) and the
\* second chroma (BY).
C20_ChromaLumChroma ==
  \A n \in AddLayerCalls :
    LET c == gimp.calls[n] IN
    CallType(c) \in { "YC", "YCA" } =>
      \A k \in 0 .. (c.width * c.height - 1) :
        LET l == CallLayer(c)
            sub == SourceIndex(CallType(c), 2, k, c.width)
        IN /\ ConvertedFrom(c.data[CallBpp(c) * k + 1], c, get_channel(l, Str2("R", "Y")), sub)
           /\ ConvertedFrom(c.data[CallBpp(c) * k + 2], c, get_channel(l, Str1("Y")), k)
           /\ ConvertedFrom(c.data[CallBpp(c) * k + 3], c, get_channel(l, Str2("B", "Y")), sub)

\* C20 (amended): the first three bytes of every pixel of a YC or YCA buffer
\* are, in order, the luminance (Y), the first chroma (RY) and the second
\* chroma (BY).
C20_LumChromaChroma ==
  \A n \in AddLayerCalls :
    LET c == gimp.calls[n] IN
    CallType(c) \in { "YC", "YCA" } =>
      \A k \in 0 .. (c.width * c.height - 1) :
        LET l == CallLayer(c)
            sub == SourceIndex(CallType(c), 2, k, c.width)
        IN /\ ConvertedFrom(c.data[CallBpp(c) * k + 1], c, get_channel(l, Str1("Y")), k)
           /\ ConvertedFrom(c.data[CallBpp(c) * k + 2], c, get_channel(l, Str2("R", "Y")), sub)
           /\ ConvertedFrom(c.data[CallBpp(c) * k + 3], c, get_channel(l, Str2("B", "Y")), sub)

\* C20 witness: a 1x1 float YC layer with Y = 0.5, RY = 1.0 and BY = 0.0
\* went to the sink as the bytes 127, 255, 0
C20_Witness ==
  \E n \in AddLayerCalls :
    LET c == gimp.calls[n] IN
    /\ CallType(c) = "YC"
    /\ CallDataType(c) = FLOAT
    /\ get_channel(CallLayer(c), Str1("Y")).m_buffer = << 0, 16128 >>
    /\ get_channel(CallLayer(c), Str2("R", "Y")).m_buffer = << 0, 16256 >>
    /\ get_channel(CallLayer(c), Str2("B", "Y")).m_buffer = << 0, 0 >>
    /\ c.data = << 127, 255, 0 >>

-----------------------------------------------------------------------------
(* Lifetime of the output buffers *)

\* C21: when convert has returned, one output buffer was allocated for each
\* layer that was converted (each layer an add_layer call was made for), and
\* every one of them has been released: none is still live.
C21_BufferLifetime ==
  pc = "done" =>
    /\ Len(heap) = Cardinality(AddLayerCalls)
    /\ \A k \in 1 .. Len(heap) : heap[k] = "freed"

-----------------------------------------------------------------------------
(* Destruction of the File *)

\* The Channel object a layer holds at position j (one-based): the one load
\* created from the decoder's channel whose full name splits into that
\* layer's name and that channel's name.
ObjectOf(k, j) ==
  CHOOSE n \in 1 .. Len(exr.channels) :
    split_full_channel_name(exr.channels[n].name) =
      [ layer_name |-> m_layers[k].m_name, channel_name |-> m_layers[k].m_channels[j].m_name ]

\* Layer::~Layer for every layer of the File: how often each Channel object
\* of m_channels is deleted by the layers that hold it
DeletedByLayers ==
  [ n \in 1 .. Len(m_channels) |->
      Cardinality({ p \in { << k, j >> : k \in 1 .. Len(m_layers), j \in 1 .. Len(exr.channels) } :
                      /\ p[2] <= Len(m_layers[p[1]].m_channels)
                      /\ ObjectOf(p[1], p[2]) = m_channels[n] }) ]

\* What `delete` of an object that was deleted before can do: the allocator
\* aborts the program, or the program goes on.
DoubleDeleteOutcomes == { "abort", "continues" }

\* File::~File: deletes every layer (each deleting its channels), clears
\* m_layers, then deletes every entry of m_channels and clears it.
File_destructor ==
  /\ deleted.state = "alive"
  /\ \E outcome \in DoubleDeleteOutcomes :
       LET byLayers == DeletedByLayers
           twice == { n \in 1 .. Len(m_channels) : byLayers[n] > 0 }
           first == IF twice = { } THEN 0
                    ELSE CHOOSE n \in twice : \A e \in twice : n <= e
           stops == twice # { } /\ outcome = "abort"
       IN /\ deleted' =
               [ state |-> IF stops THEN "aborted" ELSE "destroyed",
                 layers |-> [ k \in 1 .. Len(m_layers) |-> 1 ],
                 channels |-> [ n \in 1 .. Len(m_channels) |->
                                  IF stops /\ n > first THEN byLayers[n]
                                  ELSE byLayers[n] + 1 ] ]
          /\ m_layers' = << >>
          /\ m_channels' = IF stops THEN m_channels ELSE << >>
  /\ UNCHANGED << exr, m_loaded, m_width, m_height, m_index, load_state >>
  /\ UNCHANGED convVars
  /\ UNCHANGED layerVars

NextFile ==
  \/ load
  \/ File_destructor

\* The life of a File on its own: constructed, perhaps loaded, destroyed
SpecFile == InitLoad /\ [][NextFile]_vars

-----------------------------------------------------------------------------
(* Any sequence of insert_channel calls on a layer *)

\* Names handed to insert_channel, a name being free to come again
InsertNames == { Str1("R"), Str1("G"), Str1("Y") }

\* Layer::insert_channel of a channel of any of these names and of either
\* sample type, into a layer of fewer than MaxChannels
LayerInsertAny ==
  /\ get_channel_count(layer) < MaxChannels
  /\ \E name \in InsertNames, type \in { FLOAT, HALF } :
       layer' = insert_channel(layer, NewChannel(name, type, << >>))
  /\ UNCHANGED layer_type
  /\ UNCHANGED fileVars
  /\ UNCHANGED convVars

NextInsert == LayerInsertAny

SpecInsert == InitLayer /\ [][NextInsert]_vars

\* The names of the channels that were inserted into the layer
InsertedNames == { layer.m_channels[k].m_name : k \in 1 .. Len(layer.m_channels) }

\* C23: after any sequence of insert_channel calls the names of the layer's
\* channels are pairwise distinct, get_channel_count() is the number of
\* entries of the name index, and get_channel(name) is a channel of that
\* name for every inserted name and NULL for every other name.
C23_UniqueNames ==
  /\ \A a, b \in 1 .. Len(layer.m_channels) :
       a # b => layer.m_channels[a].m_name # layer.m_channels[b].m_name
  /\ get_channel_count(layer) = Cardinality(DOMAIN layer.m_index)
  /\ \A name \in ChannelNames :
       IF name \in InsertedNames
       THEN get_channel(layer, name) # NULL /\ get_channel(layer, name).m_name = name
       ELSE get_channel(layer, name) = NULL

====
